---- MODULE Spec2Model ----
(***************************************************************************)
(* A model of pyfastlz-native: the level-1 FastLZ encoder (compress.py)    *)
(* and the level-1 / level-2 decoders (decompress.py).                     *)
(*                                                                         *)
(* A byte string is a TLA+ sequence of numbers in 0..255; the Python index *)
(* i of a string s is s[i + 1] here.  Each behaviour of the model is one   *)
(* scenario: a compress call followed by a decompress call on the frame it *)
(* returned (with or without bytes appended by the caller), a decompress   *)
(* call on an arbitrary byte string, or one call of the match finder.      *)
(***************************************************************************)
EXTENDS Integers, Sequences, FiniteSets, TLC

VARIABLES
    sc,          \* the scenario: "roundtrip", "decode", "find", "emit" or
                 \* "token"
    pc,          \* the control location of the running call
    data,        \* compress / _find_match_lv1: the input bytes; _emit_literals:
                 \* the literals argument
    level,       \* compress: the level argument
    pos,         \* _fastlz_compress_lv1: scan position (the pos argument in "find")
    anchor,      \* _fastlz_compress_lv1: start of the pending literal run
    output,      \* _fastlz_compress_lv1: the token stream built so far (the
                 \* output argument of _emit_literals)
    cres,        \* outcome of compress: [kind, msg]
    frame,       \* the bytes returned by compress / handed to decompress
    extra,       \* number of bytes the caller appended to the frame
    datain,      \* level decoder: the token stream, frame[4:]
    doutlen,     \* decompress: the length declared by the header
    decoder,     \* decompress: the level decoder called, "none", "lv1" or "lv2"
    opcode_0,    \* level decoder: the opcode byte held
    datain_idx,  \* level decoder: input cursor
    dataout,     \* level decoder: the output bytearray
    dataout_idx, \* level decoder: output cursor
    tok,         \* level decoder: the token just executed [kind, ofs, len, at]
    dres,        \* outcome of decompress: [kind, msg]
    found        \* "find": the value returned by _find_match_lv1; "token": the
                 \* best_match (offset, length) handed to _emit_match_lv1

vars == <<sc, pc, data, level, pos, anchor, output, cres, frame, extra, datain,
          doutlen, decoder, opcode_0, datain_idx, dataout, dataout_idx, tok, dres, found>>

encvars == <<data, level, pos, anchor, output, cres>>
decvars == <<datain, doutlen, decoder, opcode_0, datain_idx, dataout, dataout_idx, tok, dres>>

----------------------------------------------------------------------------
(* Bounds of the model. *)

\* longest input drawn from every string over Alphabet
MaxLen == 10
\* longest token stream of an arbitrary frame handed to decompress
MaxStream == 4
\* how far past two full literal chunks the no-repetition inputs go
RampExtra == 2
\* how far past one full-length match (plus its leading literal) the one-byte runs go
RunExtra == 4
\* the marker inputs put a repetition at distance MAX_DISTANCE .. MAX_DISTANCE + FarShift
FarShift == 1
\* most bytes the caller appends to a frame before decoding it
MaxExtra == 1
\* how far past three full literal chunks the literal runs emitted alone go
EmitExtra == 2
\* the encoded offsets of the match tokens emitted alone lie within OffsetSpan
\* of a multiple of 256, below it and above it
OffsetSpan == 1

----------------------------------------------------------------------------
(* Program constants. *)

MAX_DISTANCE == 8191
MAX_MATCH_LEN == 264
MIN_MATCH_LEN == 3
\* the literal chunk size of _emit_literals
MAX_LITERAL_RUN == 32
\* the divisor of the header sanity check
HEADER_RATIO == 256
\* the level-2 offset value that announces a 16-bit extension
LV2_ESCAPE == 8191

----------------------------------------------------------------------------
(* Python building blocks. *)

Min(a, b) == IF a < b THEN a ELSE b
Max(a, b) == IF a > b THEN a ELSE b

\* None
None == <<>>

\* a & b and a | b on non-negative integers, bit by bit
RECURSIVE BitAnd(_, _)
BitAnd(a, b) ==
    IF a = 0 \/ b = 0 THEN 0
    ELSE (IF a % 2 = 1 /\ b % 2 = 1 THEN 1 ELSE 0) + 2 * BitAnd(a \div 2, b \div 2)

RECURSIVE BitOr(_, _)
BitOr(a, b) ==
    IF a = 0 THEN b
    ELSE IF b = 0 THEN a
    ELSE (IF a % 2 = 1 \/ b % 2 = 1 THEN 1 ELSE 0) + 2 * BitOr(a \div 2, b \div 2)

\* a >> n and a << n
Shr(a, n) == a \div (2 ^ n)
Shl(a, n) == a * (2 ^ n)

\* s[a:b] for 0 <= a, 0 <= b: both ends are clamped to len(s)
Slice(s, a, b) == SubSeq(s, Min(a, Len(s)) + 1, Min(b, Len(s)))

\* s[a:]
SliceFrom(s, a) == Slice(s, a, Len(s))

\* struct.pack("<I", n), 0 <= n < 2^32
pack_le_u32(n) == [i \in 1..4 |-> (n \div (256 ^ (i - 1))) % 256]

\* int.from_bytes(s, byteorder="little")
RECURSIVE from_bytes_le(_)
from_bytes_le(s) ==
    IF s = <<>> THEN 0 ELSE Head(s) + 256 * from_bytes_le(Tail(s))

\* bytearray(n)
Zeros(n) == [i \in 1..n |-> 0]

----------------------------------------------------------------------------
(* compress.py: the match finder. *)

\* the condition of the inner while loop, lines 217-222
match_goes_on(d, p, match_pos, max_match_len, length) ==
    /\ p + length < Len(d)
    /\ match_pos + length >= 0
    /\ length < max_match_len
    /\ d[p + length + 1] = d[match_pos + length + 1]

\* the inner while loop run from length = lo: the first length in lo .. hi - 1
\* at which its condition fails, hi when there is none (the range is split in
\* halves to keep the nesting shallow; the lengths are still tried in order)
RECURSIVE match_run(_, _, _, _, _, _)
match_run(d, p, match_pos, max_match_len, lo, hi) ==
    IF lo >= hi THEN hi
    ELSE IF hi = lo + 1
    THEN IF match_goes_on(d, p, match_pos, max_match_len, lo) THEN hi ELSE lo
    ELSE LET mid == (lo + hi) \div 2
             l == match_run(d, p, match_pos, max_match_len, lo, mid)
         IN IF l < mid THEN l
            ELSE match_run(d, p, match_pos, max_match_len, mid, hi)

\* a variant of the loop body that lets a later offset replace an equally
\* long match (>= where the code has >)
find_step_last_wins(d, p, min_match_len, max_match_len, offset, best) ==
    LET match_pos == p - offset IN
    IF match_pos < 0 THEN best
    ELSE LET length == match_run(d, p, match_pos, max_match_len, 0, max_match_len) IN
         IF length >= min_match_len /\ length >= best[2]
         THEN <<offset, length>>
         ELSE best

\* one iteration of the for loop over offset; best = <<best_offset, best_length>>.
\* The break on match_pos < 0 leaves best as it is, as does every later offset.
find_step(d, p, min_match_len, max_match_len, offset, best) ==
    LET match_pos == p - offset IN
    IF match_pos < 0 THEN best
    ELSE LET length == match_run(d, p, match_pos, max_match_len, 0, max_match_len) IN
         IF length >= min_match_len /\ length > best[2]
         THEN <<offset, length>>
         ELSE best

\* the for loop over offsets lo .. hi - 1 in increasing order, the state
\* threaded from left to right.  The range is split in halves to keep the
\* nesting shallow, and the first half is evaluated (by the comparison) before
\* the second half starts.
RECURSIVE find_loop(_, _, _, _, _, _, _)
find_loop(d, p, min_match_len, max_match_len, lo, hi, best) ==
    IF lo >= hi THEN best
    ELSE IF hi = lo + 1 THEN find_step(d, p, min_match_len, max_match_len, lo, best)
    ELSE LET mid == (lo + hi) \div 2
             first == find_loop(d, p, min_match_len, max_match_len, lo, mid, best)
         IN IF first = best
            THEN find_loop(d, p, min_match_len, max_match_len, mid, hi, best)
            ELSE find_loop(d, p, min_match_len, max_match_len, mid, hi, first)

\* range(1, min(pos - start + 1, max_distance + 1)) ends before this offset
find_stop(p, max_distance) ==
    LET start == Max(0, p - max_distance) IN
    Min(p - start + 1, max_distance + 1)

\* _find_match_lv1: None or <<offset, length>>
find_match_lv1(d, p, max_distance, min_match_len, max_match_len) ==
    IF p + min_match_len > Len(d) THEN None
    ELSE LET best == find_loop(d, p, min_match_len, max_match_len, 1,
                               find_stop(p, max_distance), <<0, 0>>) IN
         IF best[2] >= min_match_len THEN best ELSE None

----------------------------------------------------------------------------
(* compress.py: token emission.  Each operator gives the values appended to *)
(* the output bytearray, in order.                                          *)

RECURSIVE emit_literals_from(_, _)
emit_literals_from(literals, p) ==
    IF p < Len(literals)
    THEN LET chunk_size == Min(MAX_LITERAL_RUN, Len(literals) - p)
             chunk == Slice(literals, p, p + chunk_size)
             opcode == chunk_size - 1
         IN <<opcode>> \o chunk \o emit_literals_from(literals, p + chunk_size)
    ELSE <<>>

\* a variant of _emit_literals that cuts the run into chunks of 8 bytes
RECURSIVE emit_literals_short_chunks_from(_, _)
emit_literals_short_chunks_from(literals, p) ==
    IF p < Len(literals)
    THEN LET chunk_size == Min(8, Len(literals) - p)
         IN <<chunk_size - 1>> \o Slice(literals, p, p + chunk_size)
                \o emit_literals_short_chunks_from(literals, p + chunk_size)
    ELSE <<>>

emit_literals_short_chunks(literals) == emit_literals_short_chunks_from(literals, 0)

\* a variant of _emit_literals that never splits: one token for the whole run
emit_literals_unsplit(literals) ==
    IF Len(literals) > 0 THEN <<Len(literals) - 1>> \o literals ELSE <<>>

\* _emit_literals
emit_literals(literals) == emit_literals_from(literals, 0)

\* a variant of _emit_match_lv1 that encodes the 1-based offset as it is
emit_match_lv1_raw_offset(offset, length) ==
    IF length <= 8
    THEN <<BitOr(Shl(length - 2, 5), Shr(offset, 8)), BitAnd(offset, 255)>>
    ELSE <<BitOr(224, Shr(offset, 8)), BitAnd(length - 9, 255), BitAnd(offset, 255)>>

\* _emit_match_lv1
emit_match_lv1(offset, length) ==
    LET encoded_offset == offset - 1 IN
    IF length <= 8
    THEN LET M == length - 2
             R == encoded_offset
             opcode0 == BitOr(Shl(M, 5), Shr(R, 8))
             opcode1 == BitAnd(R, 255)
         IN <<opcode0, opcode1>>
    ELSE LET M == length - 9
             R == encoded_offset
             opcode0 == BitOr(224, Shr(R, 8))
             opcode1 == BitAnd(M, 255)
             opcode2 == BitAnd(R, 255)
         IN <<opcode0, opcode1, opcode2>>

\* bytearray.append / bytes([...]) accept only values in range(256)
AllBytes(s) == \A i \in 1..Len(s) : s[i] \in 0..255

\* a variant of the frame builder that tags byte 4 with level instead of
\* level - 1
build_frame_level_tag(n, lvl, compressed) ==
    LET level_byte == IF compressed # <<>>
                      THEN BitOr(Shl(lvl, 5), BitAnd(compressed[1], 31))
                      ELSE Shl(lvl, 5)
    IN pack_le_u32(n) \o <<level_byte>> \o SliceFrom(compressed, 1)

\* a variant of the frame builder that writes the length big-endian
build_frame_be(n, lvl, compressed) ==
    LET header == [i \in 1..4 |-> (n \div (256 ^ (4 - i))) % 256]
        level_byte == IF compressed # <<>>
                      THEN BitOr(Shl(lvl - 1, 5), BitAnd(compressed[1], 31))
                      ELSE Shl(lvl - 1, 5)
    IN header \o <<level_byte>> \o SliceFrom(compressed, 1)

\* compress, lines 82-91: the header and the body with the level fused into byte 4
build_frame(n, lvl, compressed) ==
    LET header == pack_le_u32(n)
        level_byte == IF compressed # <<>>
                      THEN BitOr(Shl(lvl - 1, 5), BitAnd(compressed[1], 31))
                      ELSE Shl(lvl - 1, 5)
    IN IF compressed # <<>>
       THEN header \o <<level_byte>> \o SliceFrom(compressed, 1)
       ELSE header \o <<level_byte>>

----------------------------------------------------------------------------
(* decompress.py: indexing and the overlap copy. *)

\* what a call produced: no value yet, or none at all when it raised
NoValue == "no value"

\* the position a Python index j denotes in a sequence of n items: negative
\* indices count from the end; -1 stands for IndexError
py_index(n, j) ==
    LET k == IF j < 0 THEN j + n ELSE j IN
    IF 0 <= k /\ k < n THEN k ELSE -1

\* b[a:e] = src on a bytearray, 0 <= a: the slice is clamped, and the
\* bytearray grows or shrinks when src is not as long as the slice
slice_assign(b, a, e, src) ==
    LET lo == Min(a, Len(b))
        hi == Max(lo, Min(e, Len(b)))
    IN Slice(b, 0, lo) \o src \o SliceFrom(b, hi)

\* a variant of the loop body that fills with the first source byte
memmove_step_fill(st, stidx, offset, i) ==
    IF ~st.ok THEN st
    ELSE LET src == py_index(Len(st.buf), stidx - offset)
             dst == py_index(Len(st.buf), stidx + i)
         IN IF src < 0 \/ dst < 0 THEN [ok |-> FALSE, buf |-> st.buf]
            ELSE [ok |-> TRUE, buf |-> [st.buf EXCEPT ![dst + 1] = st.buf[src + 1]]]

\* one iteration of the loop of _memmove on st = [ok, buf]; ok is FALSE once
\* an index has raised, and buf is then what the loop had written
memmove_step(st, stidx, offset, i) ==
    IF ~st.ok THEN st
    ELSE LET src == py_index(Len(st.buf), stidx - offset + i)
             dst == py_index(Len(st.buf), stidx + i)
         IN IF src < 0 \/ dst < 0 THEN [ok |-> FALSE, buf |-> st.buf]
            ELSE [ok |-> TRUE, buf |-> [st.buf EXCEPT ![dst + 1] = st.buf[src + 1]]]

\* the iterations lo .. hi - 1 in increasing order.  The range is split in
\* halves to keep the nesting shallow, and the first half is evaluated (by the
\* test of ok) before the second half starts.
RECURSIVE memmove_loop(_, _, _, _, _)
memmove_loop(st, stidx, offset, lo, hi) ==
    IF lo >= hi THEN st
    ELSE IF hi = lo + 1 THEN memmove_step(st, stidx, offset, lo)
    ELSE LET mid == (lo + hi) \div 2
             first == memmove_loop(st, stidx, offset, lo, mid)
         IN IF first.ok
            THEN memmove_loop(first, stidx, offset, mid, hi)
            ELSE first

\* a variant of _memmove that copies as a block: every source byte is read
\* from the buffer as it was before the copy
memmove_block(buf, stidx, offset, mlen) ==
    LET n == Len(buf)
        fine == \A i \in 0..(mlen - 1) :
                    py_index(n, stidx - offset + i) >= 0 /\ py_index(n, stidx + i) >= 0
    IN IF ~fine THEN [ok |-> FALSE, buf |-> buf]
       ELSE [ok |-> TRUE,
             buf |-> [k \in 1..n |->
                        IF stidx < k /\ k <= stidx + mlen
                        THEN buf[py_index(n, k - 1 - offset) + 1]
                        ELSE buf[k]]]

\* _memmove
memmove(buf, stidx, offset, mlen) ==
    memmove_loop([ok |-> TRUE, buf |-> buf], stidx, offset, 0, mlen)

----------------------------------------------------------------------------
(* decompress.py: header checks of decompress, lines 72-86. *)

\* a variant of the sanity check that divides with //, dropping the remainder
bad_headerlen_floor(n_declared, n) == (n_declared \div HEADER_RATIO) > n

\* (doutlen / 256) > n with true division: the quotient exceeds n, or equals
\* it with a remainder left
bad_headerlen(n_declared, n) ==
    LET q == n_declared \div HEADER_RATIO
        r == n_declared % HEADER_RATIO
    IN q > n \/ (q = n /\ r > 0)

\* the outcome of the header stage: an exception, or the decoder to run
header_stage(f) ==
    IF Len(f) < 4 THEN [kind |-> "ValueError", msg |-> <<"No headerlen present">>]
    ELSE IF bad_headerlen(from_bytes_le(Slice(f, 0, 4)), Len(f))
         THEN [kind |-> "ValueError", msg |-> <<"Bad headerlen">>]
    ELSE IF py_index(Len(f), 4) < 0
         THEN [kind |-> "IndexError", msg |-> <<"index out of range">>]
    ELSE LET lvl == Shr(f[5], 5) IN
         IF lvl = 0 THEN [kind |-> "lv1", msg |-> <<>>]
         ELSE IF lvl = 1 THEN [kind |-> "lv2", msg |-> <<>>]
         ELSE [kind |-> "ValueError", msg |-> <<"Unknown compression level", lvl>>]

----------------------------------------------------------------------------
(* decompress.py: token parsing.  A parse gives [err, idx, len, ofs]: the   *)
(* exception raised while reading the operands ("" for none), the input     *)
(* cursor after them, the match length and the backward offset.            *)

parsed(e, i, l, o) == [err |-> e, idx |-> i, len |-> l, ofs |-> o]

\* a variant of the long-match parse that takes the length byte as length - 8
lv1_long_len_from_eight(din, idx, op_data) ==
    IF idx >= Len(din) THEN parsed("IndexError", idx, 0, 0)
    ELSE IF idx + 1 >= Len(din) THEN parsed("IndexError", idx + 1, 0, 0)
    ELSE parsed("", idx + 2, 8 + din[idx + 1], Shl(op_data, 8) + din[idx + 2] + 1)

\* level 1, long match: lines 140-146
lv1_long(din, idx, op_data) ==
    IF idx >= Len(din) THEN parsed("IndexError", idx, 0, 0)
    ELSE IF idx + 1 >= Len(din) THEN parsed("IndexError", idx + 1, 0, 0)
    ELSE LET opcode_1 == din[idx + 1]
             opcode_2 == din[idx + 2]
         IN parsed("", idx + 2, 9 + opcode_1, Shl(op_data, 8) + opcode_2 + 1)

\* level 1, short match: lines 153-157
lv1_short(din, idx, op_type, op_data) ==
    IF idx >= Len(din) THEN parsed("IndexError", idx, 0, 0)
    ELSE LET opcode_1 == din[idx + 1] IN
         parsed("", idx + 1, 2 + op_type, Shl(op_data, 8) + opcode_1 + 1)

\* struct.unpack("=h", two bytes): a signed 16-bit integer in the byte order
\* of the machine
unpack_h(b, little) ==
    LET u == IF little THEN b[1] + 256 * b[2] ELSE 256 * b[1] + b[2] IN
    IF u >= 32768 THEN u - 65536 ELSE u

\* level 2, the length bytes of a long match: lines 227-233; [err, idx, len]
RECURSIVE lv2_length(_, _, _)
lv2_length(din, idx, len) ==
    IF idx >= Len(din) THEN [err |-> "IndexError", idx |-> idx, len |-> len]
    ELSE LET nn == din[idx + 1] IN
         IF nn # 255 THEN [err |-> "", idx |-> idx + 1, len |-> len + nn]
         ELSE lv2_length(din, idx + 1, len + nn)

\* level 2, long match: lines 225-242
lv2_long(din, idx, op_data, little) ==
    LET ml == lv2_length(din, idx, 9) IN
    IF ml.err # "" THEN parsed(ml.err, ml.idx, ml.len, 0)
    ELSE IF ml.idx >= Len(din) THEN parsed("IndexError", ml.idx, ml.len, 0)
    ELSE LET o == Shl(op_data, 8) + din[ml.idx + 1]
             i == ml.idx + 1
         IN IF o = LV2_ESCAPE
            THEN LET b == Slice(din, i, i + 2) IN
                 IF Len(b) # 2 THEN parsed("struct.error", i, ml.len, o)
                 ELSE parsed("", i + 2, ml.len, o + unpack_h(b, little))
            ELSE parsed("", i, ml.len, o)

\* a variant of the short-match parse that takes the type bits as length - 1
lv2_short_len_from_one(din, idx, op_type, op_data) ==
    IF idx >= Len(din) THEN parsed("IndexError", idx, 1 + op_type, 0)
    ELSE LET o == Shl(op_data, 8) + din[idx + 1]
             i == idx + 1
         IN IF o = LV2_ESCAPE
            THEN LET b == Slice(din, i, i + 2) IN
                 IF Len(b) < 2 THEN parsed("IndexError", i + 2, 1 + op_type, o)
                 ELSE parsed("", i + 2, 1 + op_type, o + Shl(b[1], 8) + b[2])
            ELSE parsed("", i, 1 + op_type, o)

\* level 2, short match: lines 249-260
lv2_short(din, idx, op_type, op_data) ==
    IF idx >= Len(din) THEN parsed("IndexError", idx, 2 + op_type, 0)
    ELSE LET o == Shl(op_data, 8) + din[idx + 1]
             i == idx + 1
         IN IF o = LV2_ESCAPE
            THEN LET b == Slice(din, i, i + 2) IN
                 IF Len(b) < 2 THEN parsed("IndexError", i + 2, 2 + op_type, o)
                 ELSE parsed("", i + 2, 2 + op_type, o + Shl(b[1], 8) + b[2])
            ELSE parsed("", i, 2 + op_type, o)

----------------------------------------------------------------------------
(* The inputs the scenarios draw from. *)

\* the bytes of the exhaustively enumerated inputs
Alphabet == {65, 66}

\* the strings over S of length k
Strings(S, k) == [1..k -> S]

\* n bytes without any repetition: 0, 1, 2, ...
Ramp(n) == [i \in 1..n |-> i - 1]

\* n copies of one byte
Run(n) == [i \in 1..n |-> 65]

\* around one and two full literal chunks
RampLens ==
    ((MAX_LITERAL_RUN - 1)..(MAX_LITERAL_RUN + 1))
        \cup ((2 * MAX_LITERAL_RUN - 1)..(2 * MAX_LITERAL_RUN + RampExtra))

RampInputs == {Ramp(n) : n \in RampLens}

\* a literal, one match of the greatest length, and what is left after it
RunInputs == {Run(n) : n \in (MAX_MATCH_LEN - 1)..(MAX_MATCH_LEN + 1 + RunExtra)}

\* a long literal run, a match on its first k bytes, and a last literal
MixedInputs ==
    {Ramp(n) \o SubSeq(Ramp(n), 1, k) \o <<255>> :
        n \in {MAX_LITERAL_RUN, MAX_LITERAL_RUN + 1}, k \in {3, 8, 9}}

LongInputs == RampInputs \cup RunInputs \cup MixedInputs

\* d is an input handed to compress: every string over Alphabet up to MaxLen
\* bytes, and the long inputs
IsCompressInput(d) ==
    \/ \E k \in 0..MaxLen : d \in Strings(Alphabet, k)
    \/ d \in LongInputs

\* the level arguments tried
Levels == {0, 1, 2, 3}

\* the bytes of arbitrary token streams: literal runs of 1 and 2 bytes, short
\* matches (32 carries level tag 1, 64 level tag 2), a long match (level tag 7)
StreamBytes == {0, 1, 32, 64, 224}

\* the bytes a caller appends to a frame: the opcode of a 1-byte literal run
\* and the opcode of a long match
ExtraBytes == {0, 224}

\* declared lengths tried with the stream s: small ones, a huge one (bytes
\* FF FF FF 7F, the greatest signed 32-bit value), and the values around the
\* limit of the sanity check
DeclaredLens(s) ==
    LET n == 4 + Len(s) IN
    {0, 1, 3, 12, HEADER_RATIO * n + 1, 2147483647}
        \cup (IF Len(s) <= 1 THEN {HEADER_RATIO * n - 1, HEADER_RATIO * n} ELSE {})

\* level-2 streams whose first token, a short match, carries the offset 8191
\* that announces a 16-bit extension: cut before the extension, inside it,
\* and complete
Lv2EscapeStreams ==
    {<<63, 255>>, <<63, 255, 0>>, <<63, 255, 0, 1>>, <<63, 255, 255, 255>>}

\* f is a byte string handed to decompress: a header with an arbitrary token
\* stream of up to MaxStream bytes, a header with a level-2 stream of
\* Lv2EscapeStreams, or a string too short for a header
IsFrame(f) ==
    \/ \E k \in 0..MaxStream : \E s \in Strings(StreamBytes, k) :
           \E n \in DeclaredLens(s) : f = pack_le_u32(n) \o s
    \/ \E s \in Lv2EscapeStreams : \E n \in {3, 12} : f = pack_le_u32(n) \o s
    \/ \E k \in 0..3 : f \in Strings({0, 1}, k)

\* an input whose only repetition of the 3 bytes at position p lies p bytes
\* back, at position 0
FarInput(p) ==
    [i \in 1..(p + 3) |->
        IF i <= 3 THEN 256 - i
        ELSE IF i > p THEN 256 - (i - p)
        ELSE i % 251]

\* d and p are arguments of the match finder: every position of every small
\* input, the positions around a match of the greatest length, and a
\* repetition at the greatest distance, one nearer and up to FarShift farther
IsFindInput(d, p) ==
    \/ \E k \in 0..MaxLen : d \in Strings(Alphabet, k) /\ p \in 0..k
    \/ d \in RunInputs /\ p \in {1, 2, MAX_MATCH_LEN} \cap (0..Len(d))
    \/ \E s \in (0 - 1)..FarShift :
           d = FarInput(MAX_DISTANCE + s) /\ p = MAX_DISTANCE + s

\* l is a literal run handed to _emit_literals on its own: the empty run and
\* every length up to three full chunks and EmitExtra bytes more
IsEmitInput(l) ==
    \E n \in 0..(3 * MAX_LITERAL_RUN + EmitExtra) : l = Ramp(n)

\* the offsets of the match tokens emitted alone: the values whose encoding
\* offset - 1 is near a carry into the high byte, for each of its 32 values
TokenOffsets ==
    {256 * h + r + 1 :
        h \in 0..(MAX_DISTANCE \div 256),
        r \in (0..OffsetSpan) \cup ((255 - OffsetSpan)..255)}
      \cap (1..MAX_DISTANCE)

\* m is a match handed to _emit_match_lv1 on its own: an offset of
\* TokenOffsets and any length the encoder may ask for
IsTokenInput(m) ==
    \E o \in TokenOffsets : \E l \in MIN_MATCH_LEN..MAX_MATCH_LEN : m = <<o, l>>

----------------------------------------------------------------------------
(* Outcomes. *)

Pending == [kind |-> "none", msg |-> <<>>, value |-> NoValue]
Returned(v) == [kind |-> "ok", msg |-> <<>>, value |-> v]
Raised(k, m) == [kind |-> k, msg |-> m, value |-> NoValue]

NoTok == [kind |-> "none", ofs |-> 0, len |-> 0, at |-> 0]

----------------------------------------------------------------------------
(* Initial states. *)

IdleEncoder ==
    /\ pos = 0 /\ anchor = 0 /\ output = <<>> /\ cres = Pending

IdleDecoder ==
    /\ datain = <<>> /\ doutlen = 0 /\ decoder = "none"
    /\ opcode_0 = 0 /\ datain_idx = 0
    /\ dataout = <<>> /\ dataout_idx = 0 /\ tok = NoTok /\ dres = Pending

InitRoundtrip ==
    /\ sc = "roundtrip" /\ pc = "compress"
    /\ IsCompressInput(data) /\ level \in Levels
    /\ frame = <<>> /\ extra = 0 /\ found = NoValue
    /\ IdleEncoder /\ IdleDecoder

InitDecode ==
    /\ sc = "decode" /\ pc = "decompress"
    /\ data = <<>> /\ level = 1
    /\ IsFrame(frame) /\ extra = 0 /\ found = NoValue
    /\ IdleEncoder /\ IdleDecoder

InitFind ==
    /\ sc = "find" /\ pc = "find"
    /\ IsFindInput(data, pos)
    /\ level = 1 /\ anchor = 0 /\ output = <<>> /\ cres = Pending
    /\ frame = <<>> /\ extra = 0 /\ found = NoValue
    /\ IdleDecoder

InitEmit ==
    /\ sc = "emit" /\ pc = "emit"
    /\ IsEmitInput(data)
    /\ level = 1 /\ frame = <<>> /\ extra = 0 /\ found = NoValue
    /\ IdleEncoder /\ IdleDecoder

InitToken ==
    /\ sc = "token" /\ pc = "emit_match"
    /\ IsTokenInput(found)
    /\ data = <<>> /\ level = 1 /\ frame = <<>> /\ extra = 0
    /\ IdleEncoder /\ IdleDecoder

Init == InitRoundtrip \/ InitDecode \/ InitFind \/ InitEmit \/ InitToken

----------------------------------------------------------------------------
(* compress: lines 64-79, up to the first iteration of the encoder loop. *)

CompressEntry ==
    /\ pc = "compress"
    /\ IF level \notin {1, 2}
       THEN /\ cres' = Raised("ValueError", <<"Compression level must be 1 or 2">>)
            /\ pc' = "c_raised"
            /\ UNCHANGED <<frame, pos, anchor, output>>
       ELSE IF Len(data) = 0
       THEN /\ frame' = pack_le_u32(0) \o <<Shl(level - 1, 5)>>
            /\ cres' = Returned(frame')
            /\ pc' = "c_returned"
            /\ UNCHANGED <<pos, anchor, output>>
       ELSE IF level = 1
       THEN /\ output' = <<>> /\ pos' = 0 /\ anchor' = 0
            /\ pc' = "c_loop"
            /\ UNCHANGED <<frame, cres>>
       ELSE /\ cres' = Raised("NotImplementedError",
                              <<"Level 2 compression is not implemented">>)
            /\ pc' = "c_raised"
            /\ UNCHANGED <<frame, pos, anchor, output>>
    /\ UNCHANGED <<sc, data, level, extra, found>>
    /\ UNCHANGED decvars

\* _fastlz_compress_lv1, lines 135-144: an iteration that finds no match
EncodeNoMatch ==
    /\ pc = "c_loop"
    /\ pos < Len(data)
    /\ find_match_lv1(data, pos, MAX_DISTANCE, MIN_MATCH_LEN, MAX_MATCH_LEN) = None
    /\ pos' = pos + 1
    /\ UNCHANGED <<sc, pc, data, level, anchor, output, cres, frame, extra, found>>
    /\ UNCHANGED decvars

\* _fastlz_compress_lv1, lines 135-157: an iteration that emits a match
EncodeMatch ==
    /\ pc = "c_loop"
    /\ pos < Len(data)
    /\ LET best_match == find_match_lv1(data, pos, MAX_DISTANCE, MIN_MATCH_LEN,
                                        MAX_MATCH_LEN)
       IN /\ best_match # None
          /\ LET match_offset == best_match[1]
                 match_length == best_match[2]
                 lits == IF pos > anchor
                         THEN emit_literals(Slice(data, anchor, pos))
                         ELSE <<>>
                 mtch == emit_match_lv1(match_offset, match_length)
             IN IF AllBytes(lits \o mtch)
                THEN /\ output' = output \o lits \o mtch
                     /\ pos' = pos + match_length
                     /\ anchor' = pos'
                     /\ UNCHANGED <<pc, cres>>
                ELSE /\ cres' = Raised("ValueError",
                                       <<"byte must be in range(0, 256)">>)
                     /\ pc' = "c_raised"
                     /\ UNCHANGED <<output, pos, anchor>>
    /\ UNCHANGED <<sc, data, level, frame, extra, found>>
    /\ UNCHANGED decvars

\* _fastlz_compress_lv1, lines 159-163, and compress, lines 82-91: the loop
\* has ended; the last literals are flushed and the frame is built
EncodeReturn ==
    /\ pc = "c_loop"
    /\ ~(pos < Len(data))
    /\ LET lits == IF anchor < Len(data)
                   THEN emit_literals(SliceFrom(data, anchor))
                   ELSE <<>>
           compressed == output \o lits
       IN /\ output' = compressed
          /\ frame' = build_frame(Len(data), level, compressed)
          /\ cres' = Returned(frame')
          /\ pc' = "c_returned"
    /\ UNCHANGED <<sc, data, level, pos, anchor, extra, found>>
    /\ UNCHANGED decvars

\* the caller appends a byte to the frame compress returned
AppendExtra ==
    /\ sc = "roundtrip" /\ pc = "c_returned"
    /\ extra < MaxExtra
    /\ \E b \in ExtraBytes : frame' = frame \o <<b>>
    /\ extra' = extra + 1
    /\ UNCHANGED <<sc, pc, found>>
    /\ UNCHANGED encvars
    /\ UNCHANGED decvars

\* one call of _find_match_lv1 with the level-1 constants
FindMatch ==
    /\ pc = "find"
    /\ found' = find_match_lv1(data, pos, MAX_DISTANCE, MIN_MATCH_LEN, MAX_MATCH_LEN)
    /\ pc' = "found"
    /\ UNCHANGED <<sc, frame, extra>>
    /\ UNCHANGED encvars
    /\ UNCHANGED decvars

\* one call of _emit_literals on an output bytearray
EmitLiterals ==
    /\ pc = "emit"
    /\ output' = output \o emit_literals(data)
    /\ pc' = "emitted"
    /\ UNCHANGED <<sc, data, level, pos, anchor, cres, frame, extra, found>>
    /\ UNCHANGED decvars

\* one call of _emit_match_lv1 on an output bytearray
EmitMatch ==
    /\ pc = "emit_match"
    /\ LET match_offset == found[1]
           match_length == found[2]
           mtch == emit_match_lv1(match_offset, match_length)
       IN IF AllBytes(mtch)
          THEN /\ output' = output \o mtch
               /\ pc' = "emitted_match"
               /\ UNCHANGED cres
          ELSE /\ cres' = Raised("ValueError", <<"byte must be in range(0, 256)">>)
               /\ pc' = "c_raised"
               /\ UNCHANGED output
    /\ UNCHANGED <<sc, data, level, pos, anchor, frame, extra, found>>
    /\ UNCHANGED decvars

----------------------------------------------------------------------------
(* decompress: lines 68-86, and the level decoder up to its loop (lines     *)
(* 116-123 and 201-208).                                                    *)

DecompressEntry ==
    /\ pc \in {"decompress", "c_returned"}
    /\ LET h == header_stage(frame)
           n == from_bytes_le(Slice(frame, 0, 4))
           din == SliceFrom(frame, 4)
       IN /\ doutlen' = IF Len(frame) >= 4 THEN n ELSE doutlen
          /\ IF h.kind \notin {"lv1", "lv2"}
             THEN /\ dres' = Raised(h.kind, h.msg)
                  /\ pc' = "d_raised"
                  /\ UNCHANGED <<datain, decoder, opcode_0, datain_idx, dataout>>
             ELSE IF n = 0
             THEN /\ dres' = Returned(<<>>)
                  /\ pc' = "d_returned"
                  /\ datain' = din
                  /\ decoder' = h.kind
                  /\ UNCHANGED <<opcode_0, datain_idx, dataout>>
             ELSE /\ datain' = din
                  /\ decoder' = h.kind
                  /\ opcode_0' = din[1]
                  /\ datain_idx' = 1
                  /\ dataout' = Zeros(n)
                  /\ pc' = IF h.kind = "lv1" THEN "d_lv1" ELSE "d_lv2"
                  /\ UNCHANGED dres
    /\ UNCHANGED <<dataout_idx, tok>>
    /\ UNCHANGED <<sc, frame, extra, found>>
    /\ UNCHANGED encvars

\* the end of a loop iteration, lines 162-168 and 265-271: the next opcode is
\* fetched, or the loop ends and the bytearray is returned
NextOpcode(idx, buf) ==
    IF idx < Len(datain)
    THEN /\ opcode_0' = datain[idx + 1]
         /\ datain_idx' = idx + 1
         /\ UNCHANGED <<pc, dres>>
    ELSE /\ datain_idx' = idx
         /\ dres' = Returned(buf)
         /\ pc' = "d_returned"
         /\ UNCHANGED opcode_0

\* an exception leaves the level decoder and decompress
DecoderRaises(kind, idx) ==
    /\ dres' = Raised(kind, <<>>)
    /\ pc' = "d_raised"
    /\ datain_idx' = idx
    /\ UNCHANGED opcode_0

\* a literal run: lines 129-136 (level 1, run = 1 + opcode_0) and 214-221
\* (level 2, run = 1 + op_data)
LiteralRun(run) ==
    /\ dataout' = slice_assign(dataout, dataout_idx, dataout_idx + run,
                               Slice(datain, datain_idx, datain_idx + run))
    /\ dataout_idx' = dataout_idx + run
    /\ tok' = [kind |-> "literal", ofs |-> 0, len |-> run, at |-> dataout_idx]
    /\ NextOpcode(datain_idx + run, dataout')

\* a match whose operands parsed as t: the overlap copy and the cursor update
MatchCopy(kind, t) ==
    IF t.err # ""
    THEN /\ DecoderRaises(t.err, t.idx)
         /\ UNCHANGED <<dataout, dataout_idx, tok>>
    ELSE LET m == memmove(dataout, dataout_idx, t.ofs, t.len) IN
         /\ tok' = [kind |-> kind, ofs |-> t.ofs, len |-> t.len, at |-> dataout_idx]
         /\ dataout' = m.buf
         /\ IF m.ok
            THEN /\ dataout_idx' = dataout_idx + t.len
                 /\ NextOpcode(t.idx, m.buf)
            ELSE /\ DecoderRaises("IndexError", t.idx)
                 /\ UNCHANGED dataout_idx

DecoderFrame ==
    /\ UNCHANGED <<sc, frame, extra, found, datain, doutlen, decoder>>
    /\ UNCHANGED encvars

\* _fastlz_decompress_lv1: one loop iteration on a literal run
Lv1Literal ==
    /\ pc = "d_lv1"
    /\ Shr(opcode_0, 5) = 0
    /\ LiteralRun(1 + opcode_0)
    /\ DecoderFrame

\* _fastlz_decompress_lv1: one loop iteration on a long match
Lv1LongMatch ==
    /\ pc = "d_lv1"
    /\ Shr(opcode_0, 5) = 7
    /\ MatchCopy("long", lv1_long(datain, datain_idx, BitAnd(opcode_0, 31)))
    /\ DecoderFrame

\* _fastlz_decompress_lv1: one loop iteration on a short match
Lv1ShortMatch ==
    /\ pc = "d_lv1"
    /\ Shr(opcode_0, 5) \in 1..6
    /\ MatchCopy("short", lv1_short(datain, datain_idx, Shr(opcode_0, 5),
                                    BitAnd(opcode_0, 31)))
    /\ DecoderFrame

\* _fastlz_decompress_lv1 reading the token _emit_match_lv1 wrote: the
\* first opcode is fetched (lines 119-120), split (126-127) and its operands
\* read (140-146 or 153-157), which gives the length and the offset handed to
\* _memmove; the copy itself is left to the scenarios that decode a frame
Lv1ParseMatch ==
    /\ pc = "emitted_match"
    /\ datain' = output
    /\ opcode_0' = output[1]
    /\ LET op_type == Shr(opcode_0', 5)
           op_data == BitAnd(opcode_0', 31)
           t == IF op_type = 7 THEN lv1_long(output, 1, op_data)
                ELSE lv1_short(output, 1, op_type, op_data)
       IN IF op_type = 0
          THEN /\ tok' = [kind |-> "literal", ofs |-> 0, len |-> 1 + opcode_0', at |-> 0]
               /\ datain_idx' = 1
               /\ pc' = "parsed"
               /\ UNCHANGED dres
          ELSE IF t.err # ""
          THEN /\ dres' = Raised(t.err, <<>>)
               /\ datain_idx' = t.idx
               /\ pc' = "d_raised"
               /\ UNCHANGED tok
          ELSE /\ tok' = [kind |-> IF op_type = 7 THEN "long" ELSE "short",
                          ofs |-> t.ofs, len |-> t.len, at |-> 0]
               /\ datain_idx' = t.idx
               /\ pc' = "parsed"
               /\ UNCHANGED dres
    /\ UNCHANGED <<doutlen, decoder, dataout, dataout_idx>>
    /\ UNCHANGED <<sc, frame, extra, found>>
    /\ UNCHANGED encvars

\* _fastlz_decompress_lv2: one loop iteration on a literal run
Lv2Literal ==
    /\ pc = "d_lv2"
    /\ Shr(opcode_0, 5) = 0
    /\ LiteralRun(1 + BitAnd(opcode_0, 31))
    /\ DecoderFrame

\* _fastlz_decompress_lv2: one loop iteration on a long match; the byte
\* order of the 16-bit extension is the machine's
Lv2LongMatch ==
    /\ pc = "d_lv2"
    /\ Shr(opcode_0, 5) = 7
    /\ \E little \in BOOLEAN :
           MatchCopy("long", lv2_long(datain, datain_idx, BitAnd(opcode_0, 31), little))
    /\ DecoderFrame

\* _fastlz_decompress_lv2: one loop iteration on a short match
Lv2ShortMatch ==
    /\ pc = "d_lv2"
    /\ Shr(opcode_0, 5) \in 1..6
    /\ MatchCopy("short", lv2_short(datain, datain_idx, Shr(opcode_0, 5),
                                    BitAnd(opcode_0, 31)))
    /\ DecoderFrame

----------------------------------------------------------------------------

Next ==
    \/ CompressEntry
    \/ EncodeNoMatch
    \/ EncodeMatch
    \/ EncodeReturn
    \/ AppendExtra
    \/ FindMatch
    \/ EmitLiterals
    \/ EmitMatch
    \/ Lv1ParseMatch
    \/ DecompressEntry
    \/ Lv1Literal
    \/ Lv1LongMatch
    \/ Lv1ShortMatch
    \/ Lv2Literal
    \/ Lv2LongMatch
    \/ Lv2ShortMatch

Spec == Init /\ [][Next]_vars

----------------------------------------------------------------------------
(* Properties. *)

\* the control locations after the header stage of decompress
DecodeStates == {"d_lv1", "d_lv2", "d_returned", "d_raised"}

\* decompress has ended
DecodeEnded == pc \in {"d_returned", "d_raised"}

\* the length declared by the first 4 bytes of the frame
Declared == from_bytes_le(Slice(frame, 0, 4))

\* ceil(a / b)
CeilDiv(a, b) == (a + b - 1) \div b

\* C1: round trip at level 1.  compress(x, 1) returns normally for every
\* input x, and decompress of the frame it returned (nothing appended)
\* returns normally with exactly the bytes of x.
C1_RoundTrip ==
    (sc = "roundtrip" /\ level = 1) =>
        /\ pc # "c_raised"
        /\ (extra = 0 /\ DecodeEnded) => (dres.kind = "ok" /\ dres.value = data)

\* C1 witness: a round trip is complete on an input of the greatest small
\* length whose frame ended with a long match
C1_Witness ==
    /\ sc = "roundtrip" /\ level = 1 /\ extra = 0 /\ pc = "d_returned"
    /\ Len(data) = MaxLen /\ tok.kind = "long" /\ tok.ofs < tok.len
    /\ dres.value = data

\* C2: expansion bound.  The frame returned by compress(x, 1) is at most
\* |x| + ceil(|x| / 32) + 5 bytes long.
C2_ExpansionBound ==
    (sc = "roundtrip" /\ level = 1 /\ cres.kind = "ok") =>
        Len(cres.value) <= Len(data) + CeilDiv(Len(data), 32) + 5

\* C2 witness: compress returned a frame for an input longer than one literal
\* chunk, holding literal runs and a match, one byte short of the bound
C2_Witness ==
    /\ sc = "roundtrip" /\ level = 1 /\ cres.kind = "ok"
    /\ Len(data) > MAX_LITERAL_RUN
    /\ \E i \in 1..Len(output) : output[i] >= 32
    /\ Len(cres.value) = Len(data) + CeilDiv(Len(data), 32) + 4

\* C3: frame prefix.  The frame returned by compress(x, 1) has at least 5
\* bytes, its first 4 bytes read little-endian give |x|, the top 3 bits of
\* byte 4 are 0, and the frame of the empty input is 00 00 00 00 00.
C3_FramePrefix ==
    (sc = "roundtrip" /\ level = 1 /\ cres.kind = "ok") =>
        /\ Len(cres.value) >= 5
        /\ from_bytes_le(Slice(cres.value, 0, 4)) = Len(data)
        /\ Shr(cres.value[5], 5) = 0
        /\ (data = <<>>) => (cres.value = <<0, 0, 0, 0, 0>>)

\* C3 witness: compress returned the frame of an input of more than 255
\* bytes, whose length takes two bytes of the header
C3_Witness ==
    /\ sc = "roundtrip" /\ level = 1 /\ cres.kind = "ok"
    /\ Len(data) > 255
    /\ cres.value[1] = Len(data) - 256 /\ cres.value[2] = 1

\* C4 (as claimed): compress(x, 2) ends, for every input x, the empty one
\* included, with "Level 2 compression is not implemented" and no frame.
C4_Level2Unsupported ==
    (sc = "roundtrip" /\ level = 2 /\ cres.kind # "none") =>
        /\ cres.kind = "NotImplementedError"
        /\ cres.msg = <<"Level 2 compression is not implemented">>
        /\ cres.value = NoValue

\* C5: header validation of decompress.  An input shorter than 4 bytes is
\* rejected with "No headerlen present"; a longer one is rejected with "Bad
\* headerlen" exactly when the declared length N exceeds 256 * len(input),
\* whatever byte 4 holds or whether it exists; a rejection returns nothing.
C5_HeaderValidation ==
    (pc \in DecodeStates) =>
        /\ (Len(frame) < 4) =>
               dres = Raised("ValueError", <<"No headerlen present">>)
        /\ (Len(frame) >= 4) =>
               ((dres.kind = "ValueError" /\ dres.msg = <<"Bad headerlen">>)
                    <=> (Declared > 256 * Len(frame)))
        /\ (dres.kind = "ValueError") =>
               (pc = "d_raised" /\ dres.value = NoValue /\ decoder = "none")

\* C5 witness: a 4-byte input, which has no byte 4, is rejected for its
\* declared length
C5_Witness ==
    /\ pc = "d_raised" /\ Len(frame) = 4
    /\ Declared = 256 * Len(frame) + 1
    /\ dres = Raised("ValueError", <<"Bad headerlen">>)

\* C6 (as claimed): level dispatch of decompress.  Every input of at least
\* 4 bytes that passes the sanity check has a byte 4 whose top 3 bits decide
\* the outcome: 0 calls the level-1 decoder, 1 the level-2 decoder, any other
\* value k is rejected with "Unknown compression level (k)"; the header stage
\* fails in no other way.
C6_LevelDispatch ==
    (pc \in DecodeStates /\ Len(frame) >= 4 /\ ~(Declared > 256 * Len(frame))) =>
        /\ Len(frame) >= 5
        /\ LET k == Shr(frame[5], 5) IN
           \/ k = 0 /\ decoder = "lv1"
           \/ k = 1 /\ decoder = "lv2"
           \/ /\ k \notin {0, 1}
              /\ decoder = "none"
              /\ dres = Raised("ValueError", <<"Unknown compression level", k>>)

\* C7 (as claimed): the declared length is authoritative.  Whenever
\* decompress returns a result, for any frame, the result has exactly the N
\* bytes the header declares.
C7_DeclaredLengthAuthoritative ==
    (pc = "d_returned") => (Len(dres.value) = Declared)

\* C8 (as claimed): no unused input.  A frame that carries bytes after the
\* tokens that produce its N bytes (a frame of compress(x, 1) with bytes
\* appended, or an N = 0 frame longer than 5 bytes) is not decoded to a
\* normal result.
C8_NoUnusedInput ==
    /\ (sc = "roundtrip" /\ level = 1 /\ extra > 0 /\ DecodeEnded) => (dres.kind # "ok")
    /\ (sc = "decode" /\ DecodeEnded /\ Len(frame) > 5 /\ Declared = 0) =>
           (dres.kind # "ok")

\* C9: level-1 decoder invariants on encoder output.  While decompress
\* decodes a frame returned by compress(x, 1), nothing raises; every match
\* copies from a distance of at least 1 and at most the output cursor at the
\* start of the copy, and its length is 3 to 264; the input cursor never
\* passes the end of the stream; and when the loop has stopped the output
\* cursor is N and the input cursor is the stream length.
C9_DecoderInvariants ==
    (sc = "roundtrip" /\ level = 1 /\ extra = 0 /\ pc \in DecodeStates) =>
        /\ pc # "d_raised"
        /\ decoder = "lv1"
        /\ datain_idx <= Len(datain)
        /\ (tok.kind \in {"short", "long"}) =>
               /\ 1 <= tok.ofs /\ tok.ofs <= tok.at
               /\ 3 <= tok.len /\ tok.len <= 264
        /\ (pc = "d_returned" /\ doutlen > 0) =>
               (dataout_idx = doutlen /\ datain_idx = Len(datain))

\* C9 witness: the decoder has stopped after a match of the greatest length
\* whose distance equalled the output cursor
C9_Witness ==
    /\ sc = "roundtrip" /\ level = 1 /\ extra = 0 /\ pc = "d_returned"
    /\ tok.kind = "long" /\ tok.len = 264 /\ tok.ofs = tok.at
    /\ dataout_idx = doutlen

\* the run of equal bytes at distance dist back from position p: counted up
\* to 264 bytes and to the end of the input, the current position included
RunAt(d, p, dist) ==
    LET cap == Min(264, Len(d) - p) IN
    CHOOSE k \in 0..cap :
        /\ \A j \in 0..(k - 1) : d[p + j + 1] = d[p - dist + j + 1]
        /\ (k = cap \/ d[p + k + 1] # d[p - dist + k + 1])

\* the distances the finder may use at position p
Distances(p) == 1..Min(p, 8191)

\* the longest run over all distances, 0 when there is no distance
LongestRun(d, p) ==
    IF Distances(p) = {} THEN 0
    ELSE LET runs == {RunAt(d, p, dist) : dist \in Distances(p)} IN
         CHOOSE m \in runs : \A r \in runs : r <= m

\* C10: the match finder is greedy-longest with the shortest distance on a
\* tie.  It returns no match when the longest run over the distances
\* 1 .. min(pos, 8191) is shorter than 3; otherwise the longest run and the
\* smallest distance that reaches it, so 1 <= d <= min(pos, 8191) and
\* 3 <= len <= min(264, N - pos).
C10_GreedyLongest ==
    (sc = "find" /\ pc = "found") =>
        LET longest == LongestRun(data, pos) IN
        IF longest < 3 THEN found = None
        ELSE /\ found # None
             /\ found[2] = longest
             /\ found[1] \in Distances(pos)
             /\ RunAt(data, pos, found[1]) = longest
             /\ \A dist \in Distances(pos) :
                    RunAt(data, pos, dist) = longest => found[1] <= dist
             /\ 3 <= found[2] /\ found[2] <= Min(264, Len(data) - pos)

\* C10 witness: the finder returned a match that a greater distance reaches
\* with the same length
C10_Witness ==
    /\ sc = "find" /\ pc = "found" /\ found # None
    /\ \E dist \in Distances(pos) :
           dist > found[1] /\ RunAt(data, pos, dist) = found[2]

\* the length of chunk t (counted from 0) of a literal run of L bytes cut
\* into T chunks
ChunkLen(L, T, t) == IF t < T - 1 THEN 32 ELSE L - 32 * (T - 1)

\* out is exactly the tokens of the literal run lits: ceil(L / 32) tokens, token
\* t at index 33 * t, an opcode byte chunk_len - 1 and then the chunk's bytes
IsChunked(out, lits) ==
    LET L == Len(lits)
        T == CeilDiv(L, 32)
    IN /\ Len(out) = L + T
       /\ \A t \in 0..(T - 1) :
              LET chunk_len == ChunkLen(L, T, t) IN
              /\ chunk_len \in 1..32
              /\ out[33 * t + 1] = chunk_len - 1
              /\ \A j \in 1..chunk_len : out[33 * t + 1 + j] = lits[32 * t + j]

\* C11: literal emission.  _emit_literals appends, for a run of L bytes,
\* exactly ceil(L / 32) tokens: an opcode byte chunk_len - 1 (0..31) and the
\* chunk_len bytes of the chunk, every chunk but the last of 32 bytes, and
\* nothing for L = 0; and the token stream of compress(x, 1) for an input of
\* N bytes in which no match was found has exactly N + ceil(N / 32) bytes.
C11_LiteralChunks ==
    /\ (sc = "emit" /\ pc = "emitted") =>
           /\ IsChunked(output, data)
           /\ (data = <<>>) => (output = <<>>)
    /\ (sc = "roundtrip" /\ level = 1 /\ cres.kind = "ok" /\ anchor = 0) =>
           /\ Len(output) = Len(data) + CeilDiv(Len(data), 32)
           /\ IsChunked(output, data)

\* C11 witness: a run of three full chunks and one byte more was emitted as
\* four tokens, the last one of a single byte
C11_Witness ==
    /\ sc = "emit" /\ pc = "emitted"
    /\ Len(data) = 3 * 32 + 1
    /\ Len(output) = Len(data) + 4
    /\ output[1] = 31 /\ output[34] = 31 /\ output[67] = 31 /\ output[100] = 0

\* C12: the match token is invertible by the level-1 decoder.  For an offset
\* in 1..8191 and a length in 3..264, _emit_match_lv1 appends 2 bytes when
\* the length is at most 8 and 3 bytes otherwise, each in 0..255; the top 3
\* bits of the first byte are length - 2 for a short match and 7 for a long
\* one; and the level-1 decoder reads from those bytes, consuming all of
\* them, the same backward distance and the same length.
C12_MatchTokenInvertible ==
    (sc = "token" /\ pc # "emit_match") =>
        LET offset == found[1]
            length == found[2]
        IN /\ offset \in 1..8191 /\ length \in 3..264
           /\ pc \in {"emitted_match", "parsed"}
           /\ Len(output) = (IF length <= 8 THEN 2 ELSE 3)
           /\ \A i \in 1..Len(output) : output[i] \in 0..255
           /\ Shr(output[1], 5) = (IF length <= 8 THEN length - 2 ELSE 7)
           /\ (length <= 8) => (Shr(output[1], 5) \in 1..6)
           /\ (pc = "parsed") =>
                  /\ tok.kind = (IF length <= 8 THEN "short" ELSE "long")
                  /\ tok.ofs = offset
                  /\ tok.len = length
                  /\ datain_idx = Len(output)

\* C12 witness: the greatest offset with the greatest length was emitted as
\* FF FF FE and read back by the decoder
C12_Witness ==
    /\ sc = "token" /\ pc = "parsed"
    /\ found = <<8191, 264>>
    /\ output = <<255, 255, 254>>
    /\ tok.kind = "long" /\ tok.ofs = 8191 /\ tok.len = 264

\* this step is a match of a level decoder whose call of _memmove returned:
\* tok' holds its destination index, distance and length
CopyReturned ==
    /\ pc \in {"d_lv1", "d_lv2"}
    /\ pc' # "d_raised"
    /\ tok'.kind \in {"short", "long"}

\* out is buf after a byte-serial copy of l bytes to index p from d bytes back
IsByteSerialCopy(out, buf, p, d, l) ==
    /\ Len(out) = Len(buf)
    /\ \A i \in 0..(l - 1) : out[p + i + 1] = buf[p - d + (i % d) + 1]
    /\ \A k \in 1..Len(buf) : (k <= p \/ k > p + l) => out[k] = buf[k]

\* C13: the overlap copy is byte-serial.  When _memmove has copied l bytes
\* to index p from a distance d with 1 <= d <= p, every byte out[p + i],
\* 0 <= i < l, is the byte out[p - d + (i mod d)] of before the copy (so the
\* last d bytes repeat periodically when d < l), and no byte outside
\* [p, p + l) has changed.
C13_ByteSerialCopy ==
    [][(CopyReturned /\ 1 <= tok'.ofs /\ tok'.ofs <= tok'.at) =>
           IsByteSerialCopy(dataout', dataout, tok'.at, tok'.ofs, tok'.len)]_vars

\* C13 witness: a copy from 2 bytes back of at least 5 bytes has returned,
\* and it repeated two different bytes over its whole length
C13_Witness ==
    /\ pc \in {"d_lv1", "d_lv2", "d_returned"}
    /\ tok.kind \in {"short", "long"}
    /\ tok.ofs = 2 /\ tok.at >= 2 /\ tok.len >= 5
    /\ dataout_idx = tok.at + tok.len
    /\ dataout[tok.at - 1] # dataout[tok.at]
    /\ \A i \in 0..(tok.len - 1) :
           dataout[tok.at + i + 1] = dataout[tok.at - 2 + (i % 2) + 1]

\* C14: fusing the level tag into byte 4 loses nothing at level 1.  For a
\* non-empty input x, the raw token stream B of the level-1 encoder starts
\* with a literal run, B[0] < 0x20, so masking B[0] with 0x1F clears no bit
\* and byte 4 of compress(x, 1) is B[0]; and the match finder returns no
\* match at position 0.
C14_Byte4IsFirstOpcode ==
    /\ (sc = "roundtrip" /\ level = 1 /\ cres.kind = "ok" /\ data # <<>>) =>
           /\ output # <<>>
           /\ Shr(output[1], 5) = 0
           /\ output[1] < 32
           /\ BitAnd(output[1], 31) = output[1]
           /\ cres.value[5] = output[1]
    /\ (sc = "find" /\ pc = "found" /\ pos = 0) => (found = None)

\* C14 witness: compress returned a frame whose stream starts with a full
\* literal chunk, the greatest first opcode, and holds a long match later
C14_Witness ==
    /\ sc = "roundtrip" /\ level = 1 /\ cres.kind = "ok"
    /\ Len(output) > 34
    /\ output[1] = 31 /\ cres.value[5] = 31
    /\ output[34] >= 224

\* C15: the first token of a level-2 decode.  For a frame with N > 0 whose
\* level tag is 1, the level-2 decoder is handed the stream with byte 4 in
\* it and takes byte 4 as its first opcode, so its first token, at output
\* cursor 0, has the type bits of a short match of length 3 and is never a
\* literal run; when its copy is reached, the backward distance is not in
\* 1 .. out_pos and the source position is outside the output produced so
\* far.  (The decoder ends before the copy when the operands of that token
\* run past the stream.)
C15_Level2FirstToken ==
    (decoder = "lv2" /\ doutlen > 0 /\ pc \in DecodeStates) =>
        /\ Shr(frame[5], 5) = 1
        /\ datain = SliceFrom(frame, 4)
        /\ (tok = NoTok) =>
               /\ opcode_0 = frame[5]
               /\ Shr(opcode_0, 5) = 1
               /\ dataout_idx = 0
               /\ pc \in {"d_lv2", "d_raised"}
        /\ (tok # NoTok) => (tok.at = 0 \/ tok.at >= 3)
        /\ (tok # NoTok /\ tok.at = 0) =>
               /\ tok.kind = "short"
               /\ tok.len = 3
               /\ ~(1 <= tok.ofs /\ tok.ofs <= tok.at)
               /\ (tok.at - tok.ofs) \notin 0..(tok.at - 1)

\* C15 witness: the level-2 decoder returned 3 bytes after a first token that
\* copied from distance 1 at output cursor 0, reading the end of the buffer
C15_Witness ==
    /\ sc = "decode" /\ decoder = "lv2" /\ pc = "d_returned"
    /\ doutlen = 3 /\ frame = <<3, 0, 0, 0, 32, 1>>
    /\ tok = [kind |-> "short", ofs |-> 1, len |-> 3, at |-> 0]
    /\ dres.kind = "ok"

====
